---- MODULE Spec2Model ----
(***************************************************************************)
(* Simulation-state transformations of spock/simsetup.py: validation,      *)
(* integrator configuration, frame rotation, sub-system extraction,        *)
(* collision merging, reinsertion and unit reversion.                      *)
(*                                                                         *)
(* Real numbers are exact rationals <<n, d>> (d > 0, lowest terms), so     *)
(* "equal to floating-point tolerance" reads as "equal".  Each part of the *)
(* module has its own specification (SpecValid, SpecConfig, SpecFrame,     *)
(* SpecMerge, SpecTrio); the variables of the other parts stay idle.       *)
(***************************************************************************)
EXTENDS Integers, Sequences, FiniteSets, TLC

VARIABLES
    vsim, vpre, vres, vcalls,          \* check_valid_sim
    csim, cdone,                       \* set_integrator_and_timestep
    fsim, fpre, ftheta, fpc,           \* align_simulation and the rotation back
    msim, mhist,                       \* the integrator calling perfect_merge
    orig_sim, sel, reduced_sim, result_sim, reverted,
    tpre, terr, tpc                    \* copy_sim, replace_trio, revert_sim_units

validVars  == <<vsim, vpre, vres, vcalls>>
configVars == <<csim, cdone>>
frameVars  == <<fsim, fpre, ftheta, fpc>>
mergeVars  == <<msim, mhist>>
trioVars   == <<orig_sim, sel, reduced_sim, result_sim, reverted, tpre, terr, tpc>>

vars == <<validVars, configVars, frameVars, mergeVars, trioVars>>

Idle == "idle"

ValidIdle  == vsim = Idle /\ vpre = Idle /\ vres = Idle /\ vcalls = 0
ConfigIdle == csim = Idle /\ cdone = Idle
FrameIdle  == fsim = Idle /\ fpre = Idle /\ ftheta = Idle /\ fpc = Idle
MergeIdle  == msim = Idle /\ mhist = Idle
TrioIdle   == /\ orig_sim = Idle /\ sel = Idle /\ reduced_sim = Idle /\ result_sim = Idle
              /\ reverted = Idle /\ tpre = Idle /\ terr = Idle /\ tpc = Idle

----------------------------------------------------------------------------
(* Exact rational arithmetic *)

Abs(n) == IF n < 0 THEN -n ELSE n

RECURSIVE GCD(_, _)
GCD(a, b) == IF b = 0 THEN a ELSE GCD(b, a % b)

QNorm(n, d) ==
    LET g == GCD(Abs(n), Abs(d))
        s == IF d < 0 THEN -1 ELSE 1
    IN  <<(s * n) \div g, (s * d) \div g>>

Q(n) == <<n, 1>>

QNeg(p) == <<-p[1], p[2]>>

QAdd(p, q) == QNorm(p[1] * q[2] + q[1] * p[2], p[2] * q[2])

QSub(p, q) == QAdd(p, QNeg(q))

QMul(p, q) ==
    LET g1 == GCD(Abs(p[1]), q[2])
        g2 == GCD(Abs(q[1]), p[2])
    IN  QNorm((p[1] \div g1) * (q[1] \div g2), (p[2] \div g2) * (q[2] \div g1))

QInv(p) == IF p[1] < 0 THEN <<-p[2], -p[1]>> ELSE <<p[2], p[1]>>

QDiv(p, q) == QMul(p, QInv(q))

QLess(p, q) == p[1] * q[2] < q[1] * p[2]

QLeq(p, q) == p[1] * q[2] <= q[1] * p[2]

\* np.min and np.max of a non-empty array
QMin(s) == CHOOSE x \in {s[i] : i \in DOMAIN s} : \A i \in DOMAIN s : QLeq(x, s[i])

QMax(s) == CHOOSE x \in {s[i] : i \in DOMAIN s} : \A i \in DOMAIN s : QLeq(s[i], x)

----------------------------------------------------------------------------
(* check_valid_sim *)

VMaxN == 3
VMaxMass == 2
MaxCalls == 2

VMass == -1 .. VMaxMass

SeqsUpTo(S, n) == UNION {[1..k -> S] : k \in 1..n}

\* variant: reads every particle, not only the first N_real
check_valid_sim_all(sim) ==
    LET ms == [i \in 1..Len(sim.particles) |-> sim.particles[i].m]
    IN  IF QLess(QMin(ms), Q(0))
        THEN [sim |-> sim, err |-> "AttributeError: negative masses"]
        ELSE IF QMax(ms) # ms[1]
        THEN [sim |-> sim, err |-> "AttributeError: index 0 must be the primary"]
        ELSE [sim |-> sim, err |-> "none"]

\* sim.particles[:sim.N_real] masses; the two raises; no assignment to sim
check_valid_sim(sim) ==
    LET ms == [i \in 1..sim.N_real |-> sim.particles[i].m]
    IN  IF QLess(QMin(ms), Q(0))
        THEN [sim |-> sim, err |-> "AttributeError: negative masses"]
        ELSE IF QMax(ms) # ms[1]
        THEN [sim |-> sim, err |-> "AttributeError: index 0 must be the primary"]
        ELSE [sim |-> sim, err |-> "none"]

ValidSims ==
    {[particles |-> [i \in DOMAIN ms |-> [m |-> Q(ms[i])]], N_real |-> n] :
        ms \in SeqsUpTo(VMass, VMaxN), n \in 1..VMaxN}

InitValid ==
    /\ vsim \in {s \in ValidSims : s.N_real <= Len(s.particles)}
    /\ vpre = vsim
    /\ vres = "unchecked"
    /\ vcalls = 0
    /\ ConfigIdle /\ FrameIdle /\ MergeIdle /\ TrioIdle

Validate ==
    /\ vcalls < MaxCalls
    /\ (vcalls = 0 \/ vres = "none")
    /\ LET r == check_valid_sim(vsim)
       IN  /\ vpre' = vsim
           /\ vsim' = r.sim
           /\ vres' = r.err
    /\ vcalls' = vcalls + 1
    /\ UNCHANGED <<configVars, frameVars, mergeVars, trioVars>>

NextValid == Validate

SpecValid == InitValid /\ [][NextValid]_vars

\* C1: validation raises the negative-mass error exactly when some real body
\* has a negative mass, raises the primary error exactly when no real mass is
\* negative and body 0 is not the heaviest real body, returns normally
\* otherwise; in every outcome the state is unchanged, also on a second call.
C1_Validation ==
    vcalls > 0 =>
        LET real == 1..vpre.N_real
            neg == \E i \in real : QLess(vpre.particles[i].m, Q(0))
            dom == \A i \in real : QLeq(vpre.particles[i].m, vpre.particles[1].m)
        IN  /\ vsim = vpre
            /\ (vres = "AttributeError: negative masses") <=> neg
            /\ (vres = "AttributeError: index 0 must be the primary") <=> (~neg /\ ~dom)
            /\ (vres = "none") <=> (~neg /\ dom)
            /\ vcalls >= 2 => vres = "none"

C1_Witness ==
    /\ vcalls = 2
    /\ vres = "none"
    /\ vsim.N_real >= 2
    /\ vsim.N_real < Len(vsim.particles)
    /\ QLess(vsim.particles[Len(vsim.particles)].m, Q(0))

----------------------------------------------------------------------------
(* set_integrator_and_timestep *)

CMaxPlanets == 2
CMaxP == 2

\* eccentricities 0, 0.5, 0.99, 0.995, 1 and 1.2
ESet == {<<0, 1>>, <<1, 2>>, <<99, 100>>, <<199, 200>>, <<1, 1>>, <<6, 5>>}

\* The square of P*(1-e)**1.5/sqrt(1+e), which is rational: P^2 (1-e)^3 / (1+e).
\* For e < 1 every such time is positive, so the minimum of the squares is the
\* square of the minimum.
Tperi2(P, e) ==
    LET ome == QSub(Q(1), e)
    IN  QDiv(QMul(QMul(P, P), QMul(ome, QMul(ome, ome))), QAdd(Q(1), e))

NaN == [kind |-> "nan"]

\* A timestep coef * sqrt(sq)
Num(coef, sq) == [kind |-> "num", coef |-> coef, sq |-> sq]

\* variant: ias15 from e >= 0.99 on
set_integrator_and_timestep_ge(sim) ==
    LET n  == sim.N_real - 1
        Ps == [i \in 1..n |-> sim.particles[i + 1].P]
        es == [i \in 1..n |-> sim.particles[i + 1].e]
        dt == IF QLess(QMax(es), Q(1))
              THEN Num(<<1, 20>>, QMin([i \in 1..n |-> Tperi2(Ps[i], es[i])]))
              ELSE NaN
        integrator == IF QLeq(<<99, 100>>, QMax(es)) THEN "ias15" ELSE "whfast"
    IN  [sim EXCEPT !.dt = dt, !.integrator = integrator]

\* particles[1:N_real] are slots 2..N_real here (sequences start at 1)
set_integrator_and_timestep(sim) ==
    LET n  == sim.N_real - 1
        Ps == [i \in 1..n |-> sim.particles[i + 1].P]
        es == [i \in 1..n |-> sim.particles[i + 1].e]
        dt == IF QLess(QMax(es), Q(1))
              THEN Num(<<1, 20>>, QMin([i \in 1..n |-> Tperi2(Ps[i], es[i])]))
              ELSE NaN
        integrator == IF QLess(<<99, 100>>, QMax(es)) THEN "ias15" ELSE "whfast"
    IN  [sim EXCEPT !.dt = dt, !.integrator = integrator]

COrbits == {[P |-> Q(p), e |-> e] : p \in 1..CMaxP, e \in ESet}

\* particles[0] is never read: its entries stand for any value
CStar == [P |-> Q(1), e |-> <<6, 5>>]

\* a new simulation has dt = 0.001 and the ias15 integrator; callers may have
\* chosen whfast before
InitConfig ==
    /\ csim \in {[particles |-> ps, N_real |-> n, dt |-> Num(<<1, 1000>>, Q(1)),
                   integrator |-> ig] :
                    ps \in UNION {{<<CStar>> \o qs : qs \in [1..k -> COrbits]} :
                                       k \in 1..CMaxPlanets},
                    n \in 2..(CMaxPlanets + 1),
                    ig \in {"ias15", "whfast"}}
    /\ csim.N_real <= Len(csim.particles)
    /\ cdone = FALSE
    /\ ValidIdle /\ FrameIdle /\ MergeIdle /\ TrioIdle

Configure ==
    /\ cdone = FALSE
    /\ csim' = set_integrator_and_timestep(csim)
    /\ cdone' = TRUE
    /\ UNCHANGED <<validVars, frameVars, mergeVars, trioVars>>

NextConfig == Configure

SpecConfig == InitConfig /\ [][NextConfig]_vars

CPlanetIdx == 2..csim.N_real

\* C6: the timestep is the not-a-number sentinel exactly when some
\* non-dominant body has e >= 1 and otherwise 0.05 times the minimum
\* pericentre passage time; the integrator is ias15 exactly when some
\* non-dominant body has e > 0.99 and whfast otherwise; hence the sentinel
\* timestep always comes with ias15.
C6_Timestep ==
    cdone =>
        LET hyper == \E i \in CPlanetIdx : QLeq(Q(1), csim.particles[i].e)
            near  == \E i \in CPlanetIdx : QLess(<<99, 100>>, csim.particles[i].e)
            T2(i) == Tperi2(csim.particles[i].P, csim.particles[i].e)
        IN  /\ (csim.dt.kind = "nan") <=> hyper
            /\ ~hyper =>
                  /\ csim.dt.kind = "num"
                  /\ csim.dt.coef = <<1, 20>>
                  /\ \E i \in CPlanetIdx : csim.dt.sq = T2(i)
                  /\ \A i \in CPlanetIdx : QLeq(csim.dt.sq, T2(i))
            /\ (csim.integrator = "ias15") <=> near
            /\ (csim.integrator = "whfast") <=> ~near
            /\ csim.dt.kind = "nan" => csim.integrator = "ias15"

C6_Witness ==
    /\ cdone
    /\ csim.N_real = 3
    /\ csim.particles[2].e = <<199, 200>>
    /\ csim.particles[3].e = <<1, 2>>
    /\ csim.dt.kind = "num"
    /\ csim.integrator = "ias15"

----------------------------------------------------------------------------
(* npEulerAnglesTransform, align_simulation and the rotation back *)

FMaxCoord == 1
MaxAngle == 3

\* Angle k stands for (k div 2) quarter turns plus, for odd k, the angle
\* alpha with sin(alpha) = 3/5 and cos(alpha) = 4/5; -k is the opposite
\* angle.  Every sine and cosine is then an exact rational.
SinCos(k) ==
    LET q == (k \div 2) % 4
        s == IF k % 2 = 1 THEN <<3, 5>> ELSE Q(0)
        c == IF k % 2 = 1 THEN <<4, 5>> ELSE Q(1)
    IN  CASE q = 0 -> <<s, c>>
          [] q = 1 -> <<c, QNeg(s)>>
          [] q = 2 -> <<QNeg(s), QNeg(c)>>
          [] q = 3 -> <<QNeg(c), s>>

NpSin(k) == IF k < 0 THEN QNeg(SinCos(-k)[1]) ELSE SinCos(k)[1]

NpCos(k) == SinCos(Abs(k))[2]

npEulerAnglesTransform(xyz, Omega, I, omega) ==
    LET x  == xyz[1]
        y  == xyz[2]
        z  == xyz[3]
        s1 == NpSin(omega)
        c1 == NpCos(omega)
        x1 == QSub(QMul(c1, x), QMul(s1, y))
        y1 == QAdd(QMul(s1, x), QMul(c1, y))
        z1 == z
        s2 == NpSin(I)
        c2 == NpCos(I)
        x2 == x1
        y2 == QSub(QMul(c2, y1), QMul(s2, z1))
        z2 == QAdd(QMul(s2, y1), QMul(c2, z1))
        s3 == NpSin(Omega)
        c3 == NpCos(Omega)
        x3 == QSub(QMul(c3, x2), QMul(s3, y2))
        y3 == QAdd(QMul(s3, x2), QMul(c3, y2))
        z3 == z2
    IN  <<x3, y3, z3>>

\* The loop of align_simulation over particles[:N_real]; theta1, theta2 are
\* the angles _compute_transformation_angles returned.
align_simulation(sim, theta1, theta2) ==
    [sim EXCEPT !.particles =
        [i \in DOMAIN sim.particles |->
            IF i <= sim.N_real
            THEN [sim.particles[i] EXCEPT
                    !.xyz  = npEulerAnglesTransform(@, 0, theta2, theta1),
                    !.vxyz = npEulerAnglesTransform(@, 0, theta2, theta1)]
            ELSE sim.particles[i]]]

\* variant: the negated angles in the parameter places align_simulation uses
rotate_back_same_places(sim, theta1, theta2) ==
    [sim EXCEPT !.particles =
        [i \in DOMAIN sim.particles |->
            IF i <= sim.N_real
            THEN [sim.particles[i] EXCEPT
                    !.xyz  = npEulerAnglesTransform(@, 0, -theta2, -theta1),
                    !.vxyz = npEulerAnglesTransform(@, 0, -theta2, -theta1)]
            ELSE sim.particles[i]]]

\* The loop of replace_trio that changes the axis orientation back
rotate_back(sim, theta1, theta2) ==
    [sim EXCEPT !.particles =
        [i \in DOMAIN sim.particles |->
            IF i <= sim.N_real
            THEN [sim.particles[i] EXCEPT
                    !.xyz  = npEulerAnglesTransform(@, -theta1, -theta2, 0),
                    !.vxyz = npEulerAnglesTransform(@, -theta1, -theta2, 0)]
            ELSE sim.particles[i]]]

QVec(v) == <<Q(v[1]), Q(v[2]), Q(v[3])>>

FCoord == -1 .. FMaxCoord

FPositions == {QVec(<<x, y, z>>) : x \in FCoord, y \in FCoord, z \in FCoord}

FVelocities == {QVec(<<0, 1, 0>>), QVec(<<1, 0, -1>>), QVec(<<2, -1, 1>>)}

FAngles == -MaxAngle .. MaxAngle

\* One real body, followed by one particle beyond N_real
InitFrame ==
    /\ fsim \in {[particles |-> <<[xyz |-> r, vxyz |-> v],
                                   [xyz |-> QVec(<<1, 2, 3>>), vxyz |-> QVec(<<0, 0, 1>>)]>>,
                   N_real |-> 1] : r \in FPositions, v \in FVelocities}
    /\ fpre = fsim
    /\ ftheta \in FAngles \X FAngles
    /\ fpc = "original"
    /\ ValidIdle /\ ConfigIdle /\ MergeIdle /\ TrioIdle

Align ==
    /\ fpc = "original"
    /\ fsim' = align_simulation(fsim, ftheta[1], ftheta[2])
    /\ fpc' = "aligned"
    /\ UNCHANGED <<fpre, ftheta, validVars, configVars, mergeVars, trioVars>>

RotateBack ==
    /\ fpc = "aligned"
    /\ fsim' = rotate_back(fsim, ftheta[1], ftheta[2])
    /\ fpc' = "restored"
    /\ UNCHANGED <<fpre, ftheta, validVars, configVars, mergeVars, trioVars>>

NextFrame == Align \/ RotateBack

SpecFrame == InitFrame /\ [][NextFrame]_vars

\* C7: rotating a body's position and velocity with (Omega, I, omega) =
\* (0, theta2, theta1) and then with (-theta1, -theta2, 0) gives back the
\* original vectors, for every vector and every angle pair.
C7_RoundTrip ==
    fpc = "restored" => fsim = fpre

C7_Witness ==
    /\ fpc = "restored"
    /\ ftheta = <<1, 3>>
    /\ fsim.particles[1].xyz = QVec(<<1, 0, -1>>)
    /\ fsim.particles[1].vxyz = QVec(<<2, -1, 1>>)

----------------------------------------------------------------------------
(* perfect_merge, called by the integrator on a collision *)

MMaxPlanets == 2
MMaxT == 1

\* Particle arithmetic of the rebound library, as perfect_merge uses it:
\* p*s scales the mass, the position and the velocity; p+q adds them; the
\* radius is carried from the left operand.  The radius is stored as its cube
\* r3 = r**3, which keeps (r_i**3 + r_j**3)**(1/3) exact.
VScale(v, s) == [k \in 1..3 |-> QMul(v[k], s)]

VAdd(v, w) == [k \in 1..3 |-> QAdd(v[k], w[k])]

PMul(p, s) ==
    [p EXCEPT !.m = QMul(@, s), !.xyz = VScale(@, s), !.vxyz = VScale(@, s)]

PAdd(p, q) ==
    [p EXCEPT !.m = QAdd(@, q.m), !.xyz = VAdd(@, q.xyz), !.vxyz = VAdd(@, q.vxyz)]

PDiv(p, s) == PMul(p, QInv(s))

\* variant: the plain average of the two state vectors
perfect_merge_avg(sim, p1, p2) ==
    LET ps == sim.particles
        i  == p1
        j  == p2
        total_mass     == QAdd(ps[i].m, ps[j].m)
        merged_planet  == PDiv(PAdd(ps[i], ps[j]), Q(2))
        merged_radius3 == QAdd(ps[i].r3, ps[j].r3)
        merged == [merged_planet EXCEPT !.m = total_mass, !.r3 = merged_radius3]
    IN  [sim |-> [sim EXCEPT !.particles = [ps EXCEPT ![i] = merged],
                             !.status = "stopped"],
         ret |-> 2]

\* variant: the directive to remove p1
perfect_merge_ret1(sim, p1, p2) ==
    LET ps == sim.particles
        i  == p1
        j  == p2
        total_mass     == QAdd(ps[i].m, ps[j].m)
        merged_planet  == PDiv(PAdd(PMul(ps[i], ps[i].m), PMul(ps[j], ps[j].m)), total_mass)
        merged_radius3 == QAdd(ps[i].r3, ps[j].r3)
        merged == [merged_planet EXCEPT !.m = total_mass, !.r3 = merged_radius3]
    IN  [sim |-> [sim EXCEPT !.particles = [ps EXCEPT ![i] = merged],
                             !.status = "stopped"],
         ret |-> 1]

\* p1, p2 are slots (index + 1).  Returns the simulation after the call and
\* the returned directive.
perfect_merge(sim, p1, p2) ==
    LET ps == sim.particles
        i  == p1
        j  == p2
        total_mass     == QAdd(ps[i].m, ps[j].m)
        merged_planet  == PDiv(PAdd(PMul(ps[i], ps[i].m), PMul(ps[j], ps[j].m)), total_mass)
        merged_radius3 == QAdd(ps[i].r3, ps[j].r3)
        merged == [merged_planet EXCEPT !.m = total_mass, !.r3 = merged_radius3]
    IN  [sim |-> [sim EXCEPT !.particles = [ps EXCEPT ![i] = merged],
                             !.status = "stopped"],
         ret |-> 2]

RemoveAt(s, k) == [n \in 1..(Len(s) - 1) |-> IF n < k THEN s[n] ELSE s[n + 1]]

\* The integrator's handling of the directive a collision callback returns:
\* 0 keeps both, 1 removes p1, 2 removes p2, 3 removes both.
apply_directive(ps, p1, p2, ret) ==
    CASE ret = 0 -> ps
      [] ret = 1 -> RemoveAt(ps, p1)
      [] ret = 2 -> RemoveAt(ps, p2)
      [] ret = 3 -> RemoveAt(RemoveAt(ps, IF p1 > p2 THEN p1 ELSE p2),
                             IF p1 > p2 THEN p2 ELSE p1)

\* (mass, r**3) of a planet: the radius is the Hill radius set by
\* init_sim_parameters, zero exactly for a massless body
MPlanetKinds == {<<0, 0>>, <<1, 1>>, <<2, 1>>, <<3, 8>>}

MStar == [m |-> Q(4), r3 |-> Q(0), xyz |-> QVec(<<0, 0, 0>>), vxyz |-> QVec(<<0, 0, 0>>)]

MPlanet(kind, k) ==
    [m |-> Q(kind[1]), r3 |-> Q(kind[2]),
     xyz  |-> QVec(<<k, 0, 1>>),
     vxyz |-> QVec(<<0, IF k % 2 = 0 THEN 2 ELSE -1, k>>)]

TotalMass(ps) ==
    LET RECURSIVE S(_)
        S(n) == IF n = 0 THEN Q(0) ELSE QAdd(S(n - 1), ps[n].m)
    IN  S(Len(ps))

\* sum of mass times velocity
TotalMomentum(ps) ==
    LET RECURSIVE S(_)
        S(n) == IF n = 0 THEN QVec(<<0, 0, 0>>)
                ELSE VAdd(S(n - 1), VScale(ps[n].vxyz, ps[n].m))
    IN  S(Len(ps))

InitMerge ==
    /\ \E n \in 2..MMaxPlanets : \E kinds \in [1..n -> MPlanetKinds] :
           msim = [particles |-> <<MStar>> \o [k \in 1..n |-> MPlanet(kinds[k], k)],
                   status |-> "running", t |-> 0]
    /\ mhist = [mass0 |-> TotalMass(msim.particles),
                mom0 |-> TotalMomentum(msim.particles),
                n0 |-> Len(msim.particles), events |-> 0,
                last |-> [p1 |-> 0, p2 |-> 0, ret |-> 0, before |-> <<>>],
                segmerged |-> FALSE, late_step |-> FALSE]
    /\ ValidIdle /\ ConfigIdle /\ FrameIdle /\ TrioIdle

\* One integration step of the running segment
IntegratorStep ==
    /\ msim.status = "running"
    /\ msim.t < MMaxT
    /\ msim' = [msim EXCEPT !.t = @ + 1]
    /\ mhist' = [mhist EXCEPT !.late_step = @ \/ mhist.segmerged]
    /\ UNCHANGED <<validVars, configVars, frameVars, trioVars>>

\* The integrator finds bodies p1, p2 closer than the sum of their radii,
\* calls perfect_merge and applies the directive it returns.
Collision ==
    /\ msim.status = "running"
    /\ \E p1 \in DOMAIN msim.particles : \E p2 \in DOMAIN msim.particles :
        /\ p1 # p2
        /\ QLess(Q(0), QAdd(msim.particles[p1].r3, msim.particles[p2].r3))
        /\ LET r == perfect_merge(msim, p1, p2)
           IN  /\ msim' = [r.sim EXCEPT !.particles = apply_directive(@, p1, p2, r.ret)]
               /\ mhist' = [mhist EXCEPT
                               !.events = @ + 1,
                               !.segmerged = TRUE,
                               !.last = [p1 |-> p1, p2 |-> p2, ret |-> r.ret,
                                         before |-> msim.particles]]
    /\ UNCHANGED <<validVars, configVars, frameVars, trioVars>>

\* The caller integrates again: a new segment
Integrate ==
    /\ msim.status = "stopped"
    /\ msim' = [msim EXCEPT !.status = "running"]
    /\ mhist' = [mhist EXCEPT !.segmerged = FALSE]
    /\ UNCHANGED <<validVars, configVars, frameVars, trioVars>>

NextMerge == IntegratorStep \/ Collision \/ Integrate

SpecMerge == InitMerge /\ [][NextMerge]_vars

\* Slot of the merged body after the removal of p2
MergedSlot(p1, p2) == IF p2 < p1 THEN p1 - 1 ELSE p1

\* C2: after any sequence of mergers the total mass and the total momentum
\* are those before the first merger, and the body the last merger made has
\* mass m_i + m_j and a radius with r^3 = r_i^3 + r_j^3.
C2_Conservation ==
    /\ TotalMass(msim.particles) = mhist.mass0
    /\ TotalMomentum(msim.particles) = mhist.mom0
    /\ mhist.events > 0 =>
          LET b == mhist.last.before
              i == mhist.last.p1
              j == mhist.last.p2
              merged == msim.particles[MergedSlot(i, j)]
          IN  /\ merged.m = QAdd(b[i].m, b[j].m)
              /\ merged.r3 = QAdd(b[i].r3, b[j].r3)
              /\ (b[i].m = Q(1) /\ b[j].m = Q(3) /\ b[i].r3 = Q(1) /\ b[j].r3 = Q(8))
                    => (merged.m = Q(4) /\ merged.r3 = Q(9))

\* two mergers in a row, the second one into a planet's slot
C2_Witness ==
    /\ mhist.events = 2
    /\ mhist.last.p1 = 2
    /\ mhist.mom0 # QVec(<<0, 0, 0>>)
    /\ Len(msim.particles) = 1
    /\ msim.particles[1].vxyz # QVec(<<0, 0, 0>>)

\* the example of the claim: masses 1 and 3 with radii 1 and 2
C2_Example ==
    /\ mhist.events = 1
    /\ mhist.last.before[mhist.last.p1].m = Q(1)
    /\ mhist.last.before[mhist.last.p2].m = Q(3)
    /\ mhist.last.before[mhist.last.p1].r3 = Q(1)
    /\ mhist.last.before[mhist.last.p2].r3 = Q(8)
    /\ msim.particles[MergedSlot(mhist.last.p1, mhist.last.p2)].m = Q(4)
    /\ msim.particles[MergedSlot(mhist.last.p1, mhist.last.p2)].r3 = Q(9)

\* C8: a collision event for (p1, p2), in either order, writes the merged
\* body into slot p1, removes exactly the body of slot p2 and stops the
\* integrator: one body fewer per event, every other body kept in order, and
\* no integration step follows a merger within the same segment.
C8_Collision ==
    /\ ~mhist.late_step
    /\ mhist.segmerged => msim.status = "stopped"
    /\ Len(msim.particles) = mhist.n0 - mhist.events
    /\ mhist.events > 0 =>
          LET b == mhist.last.before
              i == mhist.last.p1
              j == mhist.last.p2
              ps == msim.particles
          IN  /\ mhist.last.ret = 2
              /\ Len(ps) = Len(b) - 1
              /\ \A k \in DOMAIN b :
                    k # j => LET n == IF k > j THEN k - 1 ELSE k
                             IN  IF k = i
                                 THEN /\ ps[n].m = QAdd(b[i].m, b[j].m)
                                      /\ VScale(ps[n].vxyz, ps[n].m) =
                                            VAdd(VScale(b[i].vxyz, b[i].m),
                                                 VScale(b[j].vxyz, b[j].m))
                                 ELSE ps[n] = b[k]

C8_Witness ==
    /\ mhist.events > 0
    /\ mhist.last.p1 > mhist.last.p2
    /\ mhist.last.p2 > 1
    /\ msim.status = "stopped"
    /\ msim.t > 0
    /\ Len(msim.particles) = mhist.n0 - 1

----------------------------------------------------------------------------
(* copy_sim, replace_p, replace_trio, revert_sim_units *)

TMaxPlanets == 4

\* semi-major axes of the original planets
TAxes == {1, 2}

None == "None"

NoUnits == [length |-> None, mass |-> None, time |-> None]

\* A particle holds its mass, its orbital elements, its radius and its
\* Cartesian state.  theta and l are two readings of the same orbital phase
\* and are stored once, as l.  Indices are those of the code (from 0):
\* particle i is element i + 1 of the sequence.
At(ps, i) == ps[i + 1]

Orb(p) == [m |-> p.m, a |-> p.a, e |-> p.e, inc |-> p.inc,
           pomega |-> p.pomega, Omega |-> p.Omega, l |-> p.l]

\* rebound.Simulation()
NewSim == [particles |-> <<>>, N_real |-> 0, G |-> "1", t |-> Q(0), units |-> NoUnits]

\* sim.add(m=...): a body at rest at the origin
StarBody(m) == [m |-> m, a |-> Q(0), e |-> 0, inc |-> 0, pomega |-> 0, Omega |-> 0, l |-> 0]

\* sim.add(...): appends a particle
Add(s, p) == [s EXCEPT !.particles = Append(@, p), !.N_real = @ + 1]

\* sim.remove(index): the later particles move down by one
Remove(s, index) == [s EXCEPT !.particles = RemoveAt(@, index + 1), !.N_real = @ - 1]

Range(f) == {f[i] : i \in DOMAIN f}

SeqMin(f) == CHOOSE x \in Range(f) : \A y \in Range(f) : x <= y

\* for i in range(1, sim.N): if i in p_inds
Selected(N, p_inds) ==
    SelectSeq([i \in 1..(N - 1) |-> i], LAMBDA i : i \in Range(p_inds))

AddAll(s, bodies) ==
    LET RECURSIVE F(_)
        F(n) == IF n = 0 THEN s ELSE Add(F(n - 1), bodies[n])
    IN  F(Len(bodies))

\* Returns the new simulation, or the error raised.  ps[k].a of a missing
\* particle and of particle 0 (which has no orbit) raise in the library.
copy_sim(original, p_inds, scaled) ==
    LET sim_copy == [NewSim EXCEPT !.G = "4pi^2"]
        ps   == original.particles
        N    == Len(ps)
        inds == Selected(N, p_inds)
    IN  IF scaled
        THEN LET lo == SeqMin(p_inds)
             IN  IF lo >= N
                 THEN [ret |-> None, err |-> "IndexError: no such particle"]
                 ELSE IF lo = 0
                 THEN [ret |-> None, err |-> "ValueError: particle 0 has no orbit"]
                 ELSE LET a1    == At(ps, lo).a
                          Mstar == At(ps, 0).m
                      IN  [ret |-> AddAll(Add(sim_copy, StarBody(Q(1))),
                                    [n \in DOMAIN inds |->
                                        [Orb(At(ps, inds[n])) EXCEPT
                                            !.m = QDiv(@, Mstar), !.a = QDiv(@, a1)]]),
                           err |-> "none"]
        ELSE [ret |-> AddAll(Add(sim_copy, StarBody(At(ps, 0).m)),
                        [n \in DOMAIN inds |-> Orb(At(ps, inds[n]))]),
              err |-> "none"]

\* Sets the mass and the six orbital elements of particle p_ind, in place
replace_p(s, p_ind, new_particle) ==
    [s EXCEPT !.particles[p_ind + 1] =
        [@ EXCEPT !.m = new_particle.m, !.a = new_particle.a, !.e = new_particle.e,
                  !.inc = new_particle.inc, !.pomega = new_particle.pomega,
                  !.Omega = new_particle.Omega, !.l = new_particle.l]]

\* np.argsort of a small array (insertion sort, stable): the indices from 0
ArgSort(s) ==
    LET Before(j, i) == QLess(s[j], s[i]) \/ (s[j] = s[i] /\ j < i)
        Rank(i) == Cardinality({j \in DOMAIN s : Before(j, i)}) + 1
    IN  [n \in DOMAIN s |-> (CHOOSE i \in DOMAIN s : Rank(i) = n) - 1]

\* variant: reads the particles from the simulation it is writing
reorder_in_place(sim_copy) ==
    LET ps        == sim_copy.particles
        semi_as   == [i \in 1..(Len(ps) - 1) |-> At(ps, i).a]
        sort_inds == ArgSort(semi_as)
        RECURSIVE F(_)
        F(n) == IF n = 0 THEN sim_copy
                ELSE replace_p(F(n - 1), (n - 1) + 1,
                               At(F(n - 1).particles, sort_inds[n] + 1))
    IN  F(Len(sort_inds))

\* The last part of replace_trio: the particles in ascending semi-major axis
reorder(sim_copy) ==
    LET ps        == sim_copy.particles
        semi_as   == [i \in 1..(Len(ps) - 1) |-> At(ps, i).a]
        sort_inds == ArgSort(semi_as)
        RECURSIVE F(_)
        F(n) == IF n = 0 THEN sim_copy
                ELSE replace_p(F(n - 1), (n - 1) + 1, At(ps, sort_inds[n] + 1))
    IN  F(Len(sort_inds))

\* variant: removes the lowest index first
splice_ascending(original_sim, ind1, ind2, ind3, new_ps) ==
    LET n == Len(new_ps)
        Bound(c) == [bound |-> TRUE, sim_copy |-> c]
    IN  IF n = 3
        THEN Bound(Remove(replace_p(replace_p(original_sim, ind1, At(new_ps, 1)),
                                    ind2, At(new_ps, 2)), ind3))
        ELSE IF n = 2
        THEN Bound(Remove(Remove(replace_p(original_sim, ind1, At(new_ps, 1)), ind2), ind3))
        ELSE IF n = 1
        THEN Bound(Remove(Remove(Remove(original_sim, ind1), ind2), ind3))
        ELSE [bound |-> FALSE, sim_copy |-> None]

\* The particle replacement of replace_trio, on original_sim.copy(); sim_copy
\* stays unbound when no branch runs.
splice(original_sim, ind1, ind2, ind3, new_ps) ==
    LET n == Len(new_ps)
        Bound(c) == [bound |-> TRUE, sim_copy |-> c]
    IN  IF n = 3
        THEN Bound(Remove(replace_p(replace_p(original_sim, ind1, At(new_ps, 1)),
                                    ind2, At(new_ps, 2)), ind3))
        ELSE IF n = 2
        THEN Bound(Remove(Remove(replace_p(original_sim, ind1, At(new_ps, 1)), ind3), ind2))
        ELSE IF n = 1
        THEN Bound(Remove(Remove(Remove(original_sim, ind3), ind2), ind1))
        ELSE [bound |-> FALSE, sim_copy |-> None]

\* Returns both arguments as they are after the call, the returned
\* simulation and the error raised.
replace_trio(original_sim, trio_inds, new_state, theta1, theta2) ==
    LET original_a1 == At(original_sim.particles, trio_inds[1]).a
        new_ps == [i \in DOMAIN new_state.particles |->
                     IF i >= 2
                     THEN [new_state.particles[i] EXCEPT !.a = QMul(original_a1, @)]
                     ELSE new_state.particles[i]]
        rescaled == [new_state EXCEPT !.particles = new_ps]
        sp == splice(original_sim, trio_inds[1], trio_inds[2], trio_inds[3], new_ps)
    IN  IF ~sp.bound
        THEN [original_sim |-> original_sim, new_state_sim |-> rescaled,
              ret |-> None, err |-> "UnboundLocalError: sim_copy"]
        ELSE [original_sim |-> original_sim, new_state_sim |-> rescaled,
              ret |-> reorder(rotate_back(sp.sim_copy, theta1, theta2)),
              err |-> "none"]

\* One element of the list revert_sim_units returns.  Setting the units of a
\* simulation also sets its G to the value of G in those units.
revert_one(s, Mstar, a1, original_G, original_units, P1) ==
    LET c0 == [NewSim EXCEPT !.G = original_G]
        c1 == IF original_units.length = None \/ original_units.mass = None
                 \/ original_units.time = None
              THEN c0
              ELSE [c0 EXCEPT !.units = original_units, !.G = <<"G in", original_units>>]
        ps == s.particles
        c2 == AddAll(Add(c1, StarBody(Mstar)),
                     [j \in 1..(Len(ps) - 1) |->
                        [Orb(At(ps, j)) EXCEPT !.m = QMul(@, Mstar), !.a = QMul(@, a1)]])
    IN  IF P1 = None THEN c2 ELSE [c2 EXCEPT !.t = QMul(s.t, P1)]

revert_sim_units(sims, original_Mstars, original_a1s, original_G, original_units, original_P1s) ==
    [sims |-> sims,
     ret  |-> [i \in DOMAIN sims |->
                revert_one(sims[i], original_Mstars[i], original_a1s[i], original_G,
                           original_units,
                           IF original_P1s = None THEN None ELSE original_P1s[i])]]

\* The original system: a star of mass 2 and planets of mass 1; planet k has
\* elements and a radius that tell it from the others.
TStar ==
    [m |-> Q(2), a |-> Q(0), e |-> 0, inc |-> 0, pomega |-> 0, Omega |-> 0, l |-> 0,
     r |-> 0, xyz |-> QVec(<<0, 0, 0>>), vxyz |-> QVec(<<0, 0, 0>>)]

TPlanet(k, a) ==
    [m |-> Q(1), a |-> Q(a), e |-> k, inc |-> 10 + k, pomega |-> 20 + k,
     Omega |-> 30 + k, l |-> 40 + k,
     r |-> k, xyz |-> QVec(<<a, k, 0>>), vxyz |-> QVec(<<0, 1, k>>)]

TSims ==
    UNION {{[particles |-> <<TStar>> \o [k \in 1..n |-> TPlanet(k, as[k])],
             N_real |-> n + 1, G |-> "1", t |-> Q(0), units |-> NoUnits] :
                as \in [1..n -> TAxes]} : n \in 3..TMaxPlanets}

\* ascending selections of one to three indices; index N does not exist
TSelections(N) ==
    {p \in UNION {[1..k -> 0..N] : k \in 1..3} :
        \A i \in DOMAIN p : \A j \in DOMAIN p : i < j => p[i] < p[j]}

TAngles == {<<0, 0>>, <<1, 3>>}

NoCall == [call |-> "none", orig_sim |-> None, reduced_sim |-> None,
           result_sim |-> None, theta |-> None, integrated |-> FALSE]

InitTrio ==
    /\ orig_sim \in TSims
    /\ sel = [p_inds |-> <<>>, scaled |-> FALSE]
    /\ reduced_sim = None
    /\ result_sim = None
    /\ reverted = None
    /\ tpre = NoCall
    /\ terr = "none"
    /\ tpc = "start"
    /\ ValidIdle /\ ConfigIdle /\ FrameIdle /\ MergeIdle

CopySim ==
    /\ tpc = "start"
    /\ \E p_inds \in TSelections(Len(orig_sim.particles)) : \E scaled \in BOOLEAN :
        LET r == copy_sim(orig_sim, p_inds, scaled)
        IN  /\ sel' = [p_inds |-> p_inds, scaled |-> scaled]
            /\ reduced_sim' = r.ret
            /\ terr' = r.err
            /\ tpc' = IF r.err = "none" THEN "extracted" ELSE "failed"
    /\ tpre' = [NoCall EXCEPT !.call = "copy_sim", !.orig_sim = orig_sim]
    /\ UNCHANGED <<orig_sim, result_sim, reverted>>
    /\ UNCHANGED <<validVars, configVars, frameVars, mergeVars>>

\* the selection is a trio of existing non-dominant indices
IsTrio ==
    /\ Len(sel.p_inds) = 3
    /\ \A i \in DOMAIN sel.p_inds :
          sel.p_inds[i] >= 1 /\ sel.p_inds[i] <= Len(orig_sim.particles) - 1

Reverse(s) == [i \in DOMAIN s |-> s[Len(s) + 1 - i]]

\* The integration of the reduced system, with its mergers: some of the
\* three bodies survive, in their order or the opposite one; the mass of a
\* removed body goes to the first survivor, or to the dominant body.
IntegrateTrio ==
    /\ tpc = "extracted"
    /\ IsTrio
    /\ \E keep \in SUBSET {2, 3, 4} : \E rev \in BOOLEAN :
        /\ (Cardinality(keep) <= 1 => ~rev)
        /\ (Cardinality(keep) = 3 => rev)
        /\ LET ps   == reduced_sim.particles
               kept == SelectSeq(<<2, 3, 4>>, LAMBDA i : i \in keep)
               ord  == IF rev THEN Reverse(kept) ELSE kept
               Lost(i) == IF i \in keep THEN Q(0) ELSE ps[i].m
               gain == QAdd(Lost(2), QAdd(Lost(3), Lost(4)))
               heir == IF Len(ord) = 0 THEN 1 ELSE 2
               out  == [n \in 1..(Len(ord) + 1) |->
                          LET p == IF n = 1 THEN ps[1] ELSE ps[ord[n - 1]]
                          IN  IF n = heir THEN [p EXCEPT !.m = QAdd(@, gain)] ELSE p]
           IN  reduced_sim' = [reduced_sim EXCEPT !.particles = out,
                                                  !.N_real = Len(out), !.t = Q(1)]
    /\ tpre' = [NoCall EXCEPT !.call = "integrate"]
    /\ tpc' = "integrated"
    /\ UNCHANGED <<orig_sim, sel, result_sim, reverted, terr>>
    /\ UNCHANGED <<validVars, configVars, frameVars, mergeVars>>

ReplaceTrio ==
    /\ tpc \in {"extracted", "integrated"}
    /\ IsTrio
    /\ \E th \in TAngles :
        LET r == replace_trio(orig_sim, sel.p_inds, reduced_sim, th[1], th[2])
        IN  /\ orig_sim' = r.original_sim
            /\ reduced_sim' = r.new_state_sim
            /\ result_sim' = r.ret
            /\ terr' = r.err
            /\ tpc' = IF r.err = "none" THEN "reinserted" ELSE "failed"
            /\ tpre' = [NoCall EXCEPT !.call = "replace_trio", !.orig_sim = orig_sim,
                                      !.reduced_sim = reduced_sim, !.theta = th,
                                      !.integrated = (tpc = "integrated")]
    /\ UNCHANGED <<sel, reverted>>
    /\ UNCHANGED <<validVars, configVars, frameVars, mergeVars>>

\* the anchors and units a caller saved: [Mstars, a1s, G, units, P1s]
RevertInputs ==
    {[Mstars |-> <<Q(1), Q(1)>>, a1s |-> <<Q(1), Q(1)>>, G |-> "1",
      units |-> NoUnits, P1s |-> None],
     [Mstars |-> <<Q(3), Q(2)>>, a1s |-> <<Q(2), Q(3)>>, G |-> "4pi^2",
      units |-> [length |-> "AU", mass |-> "Msun", time |-> "yr"],
      P1s |-> <<Q(2), Q(3)>>]}

\* The caller reverts the batch of the two simulations it holds
RevertSimUnits ==
    /\ tpc = "reinserted"
    /\ \E inp \in RevertInputs :
        LET r == revert_sim_units(<<reduced_sim, result_sim>>, inp.Mstars, inp.a1s,
                                  inp.G, inp.units, inp.P1s)
        IN  /\ reduced_sim' = r.sims[1]
            /\ result_sim' = r.sims[2]
            /\ reverted' = r.ret
    /\ tpre' = [NoCall EXCEPT !.call = "revert_sim_units", !.orig_sim = orig_sim,
                              !.reduced_sim = reduced_sim, !.result_sim = result_sim]
    /\ tpc' = "reverted"
    /\ UNCHANGED <<orig_sim, sel, terr>>
    /\ UNCHANGED <<validVars, configVars, frameVars, mergeVars>>

NextTrio == CopySim \/ IntegrateTrio \/ ReplaceTrio \/ RevertSimUnits

SpecTrio == InitTrio /\ [][NextTrio]_vars

(* What the claims speak of *)

Count(seq, x) == Cardinality({i \in DOMAIN seq : seq[i] = x})

SameBodies(s1, s2) ==
    /\ Len(s1) = Len(s2)
    /\ \A x \in Range(s1) \cup Range(s2) : Count(s1, x) = Count(s2, x)

Planets(s) == [i \in 1..(Len(s.particles) - 1) |-> At(s.particles, i)]

Orbs(seq) == [i \in DOMAIN seq |-> Orb(seq[i])]

\* indices of the original's non-dominant bodies outside the trio, ascending
Outside(original, trio) ==
    SelectSeq([i \in 1..(Len(original.particles) - 1) |-> i],
              LAMBDA i : i \notin Range(trio))

Reinserted == tpre.call = "replace_trio" /\ tpc = "reinserted"

\* The bodies a returned system must hold: the survivors of the reduced
\* state as replace_trio left it, and the original's bodies outside the trio
Expected ==
    Orbs(Planets(reduced_sim))
        \o [n \in DOMAIN Outside(tpre.orig_sim, sel.p_inds) |->
               Orb(At(tpre.orig_sim.particles, Outside(tpre.orig_sim, sel.p_inds)[n]))]

\* C3 as claimed: a trio extracted with scaled=False and reinserted at once,
\* without integration and with no rotation to undo, is reinserted without
\* error, the trio bodies have their original mass and elements and every
\* other body is untouched.
C3_ReinsertionIdentity ==
    (/\ tpre.call = "replace_trio"
     /\ ~tpre.integrated
     /\ ~sel.scaled
     /\ tpre.theta = <<0, 0>>)
        => /\ terr = "none"
           /\ tpc = "reinserted"
           /\ result_sim.particles = tpre.orig_sim.particles

\* C4 as claimed: slots 1..k of the returned system hold the surviving
\* non-dominant bodies, each once, with a_i < a_j for all slots i < j.
C4_StrictOrder ==
    Reinserted =>
        LET ps == Planets(result_sim)
        IN  /\ SameBodies(Orbs(ps), Expected)
            /\ \A i \in DOMAIN ps : \A j \in DOMAIN ps :
                  i < j => QLess(ps[i].a, ps[j].a)

\* C4, amended: slots 1..k of the returned system hold the surviving
\* non-dominant bodies (their mass and orbital elements), each once, with
\* a_i <= a_j for all slots i < j: bodies of equal semi-major axis stay
\* next to each other.
C4_Order ==
    Reinserted =>
        LET ps == Planets(result_sim)
        IN  /\ SameBodies(Orbs(ps), Expected)
            /\ \A i \in DOMAIN ps : \A j \in DOMAIN ps :
                  i < j => QLeq(ps[i].a, ps[j].a)

\* two survivors of equal semi-major axis, and a body outside the trio that
\* the ordering has moved from the last slot to the first
C4_Witness ==
    /\ Reinserted
    /\ tpre.integrated
    /\ Len(tpre.reduced_sim.particles) = 3
    /\ Len(result_sim.particles) = 4
    /\ sel.p_inds = <<1, 2, 3>>
    /\ At(result_sim.particles, 1).e = At(tpre.orig_sim.particles, 4).e
    /\ QLess(At(result_sim.particles, 1).a, At(result_sim.particles, 2).a)
    /\ At(result_sim.particles, 2).a = At(result_sim.particles, 3).a

\* C5 as claimed: a selection of existing non-dominant indices gives the
\* dominant body followed by exactly the selected bodies in their original
\* order; a selection holding index 0 or a missing index fails with an error
\* and returns no reduced state.
C5_Extraction ==
    tpre.call = "copy_sim" =>
        LET N     == Len(orig_sim.particles)
            valid == \A i \in DOMAIN sel.p_inds : sel.p_inds[i] \in 1..(N - 1)
        IN  IF valid
            THEN /\ terr = "none"
                 /\ Len(reduced_sim.particles) = Len(sel.p_inds) + 1
                 /\ At(reduced_sim.particles, 0).m =
                        (IF sel.scaled THEN Q(1) ELSE At(orig_sim.particles, 0).m)
                 /\ \A n \in DOMAIN sel.p_inds :
                      LET p == At(reduced_sim.particles, n)
                          o == At(orig_sim.particles, sel.p_inds[n])
                      IN  /\ p.e = o.e /\ p.inc = o.inc /\ p.pomega = o.pomega
                          /\ p.Omega = o.Omega /\ p.l = o.l
                          /\ ~sel.scaled => (p.m = o.m /\ p.a = o.a)
            ELSE /\ terr # "none"
                 /\ reduced_sim = None

\* Slots of the original that a reinsertion of k survivors must keep: all
\* but the 3 - k highest trio slots
KeptSlots(original, trio, k) ==
    SelectSeq([i \in 1..Len(original.particles) |-> i - 1],
              LAMBDA i : \A n \in (k + 1)..3 : i # trio[n])

\* What C9 says of the bodies and the slots removed: no error, N - (3 - k)
\* bodies, the slots kept are all but the 3 - k highest trio slots (each slot
\* keeps its radius, which tells which were removed), the bodies are the
\* survivors and every body outside the trio, and with k = 0 and N = 4 only
\* the dominant body remains.
Retained ==
    LET N    == Len(tpre.orig_sim.particles)
        k    == Len(tpre.reduced_sim.particles) - 1
        kept == KeptSlots(tpre.orig_sim, sel.p_inds, k)
    IN  /\ terr = "none"
        /\ tpc = "reinserted"
        /\ Len(result_sim.particles) = N - (3 - k)
        /\ Len(kept) = N - (3 - k)
        /\ \A n \in DOMAIN kept :
              result_sim.particles[n].r = At(tpre.orig_sim.particles, kept[n]).r
        /\ At(result_sim.particles, 0).m = At(tpre.orig_sim.particles, 0).m
        /\ SameBodies(Orbs(Planets(result_sim)), Expected)
        /\ (k = 0 /\ N = 4) => Len(result_sim.particles) = 1

\* C9 as claimed: with k = 0, 1 or 2 survivors replace_trio raises no error
\* and returns N - (3 - k) bodies, the 3 - k highest trio slots removed and
\* every body outside the trio retained, and in the returned system the
\* survivors occupy the k lowest trio slots.
C9_SurvivorSlots ==
    (tpre.call = "replace_trio" /\ Len(tpre.reduced_sim.particles) <= 3) =>
        /\ Retained
        /\ \A n \in 1..(Len(tpre.reduced_sim.particles) - 1) :
              Orb(At(result_sim.particles, sel.p_inds[n])) =
                  Orb(At(reduced_sim.particles, n))

\* C9, amended: with k = 0, 1 or 2 survivors replace_trio raises no error
\* and returns N - (3 - k) bodies, the 3 - k highest trio slots removed and
\* every body outside the trio retained; the survivors are written to the k
\* lowest trio slots before the bodies are put in ascending semi-major axis,
\* and the returned system holds the same bodies as that intermediate one.
C9_Survivors ==
    (tpre.call = "replace_trio" /\ Len(tpre.reduced_sim.particles) <= 3) =>
        LET sp == splice(tpre.orig_sim, sel.p_inds[1], sel.p_inds[2], sel.p_inds[3],
                         reduced_sim.particles)
        IN  /\ Retained
            /\ sp.bound
            /\ \A n \in 1..(Len(tpre.reduced_sim.particles) - 1) :
                  Orb(At(sp.sim_copy.particles, sel.p_inds[n])) =
                      Orb(At(reduced_sim.particles, n))
            /\ SameBodies(Orbs(Planets(result_sim)), Orbs(Planets(sp.sim_copy)))

\* one survivor, a trio that is not the three lowest slots, and the survivor
\* ends in a slot that is not the trio's lowest
C9_Witness ==
    /\ Reinserted
    /\ Len(tpre.reduced_sim.particles) = 2
    /\ sel.p_inds = <<1, 3, 4>>
    /\ Len(result_sim.particles) = 3
    /\ {result_sim.particles[n].r : n \in 1..3} = {0, 1, 2}
    /\ Orb(At(result_sim.particles, 2)) = Orb(At(reduced_sim.particles, 1))

\* the case of the claim with no survivor
C9_NoSurvivor ==
    /\ Reinserted
    /\ Len(tpre.reduced_sim.particles) = 1
    /\ Len(tpre.orig_sim.particles) = 4
    /\ Len(result_sim.particles) = 1

\* C10 as claimed: after copy_sim, replace_trio and revert_sim_units every
\* simulation passed in is as it was before the call.
C10_ArgumentsUnchanged ==
    /\ tpre.call \in {"copy_sim", "replace_trio", "revert_sim_units"}
          => orig_sim = tpre.orig_sim
    /\ tpre.call \in {"replace_trio", "revert_sim_units"}
          => reduced_sim = tpre.reduced_sim
    /\ tpre.call = "revert_sim_units" => result_sim = tpre.result_sim

====
